---- MODULE Spec2Model ----
(***************************************************************************)
(* Frame-grid snapping and timeline assembly of avtools:                   *)
(*   avtools/common/fcpxml_utils.py  snap_to_frame_grid,                   *)
(*                                   seconds_to_timeline_time              *)
(*   avtools/audio/fcpxml.py         create_fcpxml_from_data (audio)       *)
(*   avtools/video/fcpxml.py         create_fcpxml_from_data (video)       *)
(*   avtools/audio/fcpxml_otio.py    create_fcpxml_from_data (OTIO)        *)
(*   avtools/common/otio_utils.py    create_timeline_from_elements         *)
(*   avtools/common/timeline/io.py   create_video_timeline,                *)
(*                                   create_audio_timeline                 *)
(* Times are decimal.Decimal values under getcontext().prec = 20, modelled *)
(* digit by digit so that the rounding of every product, quotient and      *)
(* difference is the one the interpreter performs.                         *)
(***************************************************************************)
EXTENDS Integers, Sequences, FiniteSets, TLC

\* getcontext().prec = 20
Prec == 20

Max2(a, b) == IF a >= b THEN a ELSE b

Abs(n) == IF n < 0 THEN 0 - n ELSE n

(***************************************************************************)
(* decimal.Decimal.  A value is sign * (ip + 0.frac): ip the integer part, *)
(* frac the fractional digits, most significant first, without trailing    *)
(* zeros.  Zero is never negative, so equal values are equal records.      *)
(***************************************************************************)
RECURSIVE StripZeros(_)
StripZeros(ds) ==
    IF ds = <<>> THEN ds
    ELSE IF ds[Len(ds)] = 0 THEN StripZeros(SubSeq(ds, 1, Len(ds) - 1))
    ELSE ds

MkDec(neg, ip, frac) ==
    LET f == StripZeros(frac)
    IN  [neg |-> neg /\ (ip # 0 \/ f # <<>>), ip |-> ip, frac |-> f]

RECURSIVE NumDigits(_)
NumDigits(n) == IF n = 0 THEN 0 ELSE 1 + NumDigits(n \div 10)

RECURSIVE LeadingZeros(_)
LeadingZeros(ds) ==
    IF ds = <<>> THEN 0
    ELSE IF Head(ds) = 0 THEN 1 + LeadingZeros(Tail(ds))
    ELSE 0

AnyNonZero(ds) == \E i \in 1..Len(ds) : ds[i] # 0

Pad(ds, n) == ds \o [i \in 1..(n - Len(ds)) |-> 0]

\* add one unit in the last place of a digit string; carry out of the top
RECURSIVE IncDigits(_)
IncDigits(ds) ==
    IF ds = <<>> THEN [carry |-> 1, ds |-> <<>>]
    ELSE LET n == Len(ds)
         IN  IF ds[n] < 9 THEN [carry |-> 0, ds |-> [ds EXCEPT ![n] = ds[n] + 1]]
             ELSE LET r == IncDigits(SubSeq(ds, 1, n - 1))
                  IN  [carry |-> r.carry, ds |-> Append(r.ds, 0)]

\* number of fractional digits that Prec significant digits leave room for
KeepLen(ip, frac) ==
    IF ip > 0 THEN Prec - NumDigits(ip) ELSE Prec + LeadingZeros(frac)

\* the context rounding (ROUND_HALF_EVEN) of a magnitude to Prec significant
\* digits; sticky says that non-zero digits follow frac
RoundMag(ip, frac, sticky) ==
    LET k == KeepLen(ip, frac)
    IN  IF Len(frac) <= k THEN [ip |-> ip, frac |-> frac]
        ELSE LET kept == SubSeq(frac, 1, k)
                 d    == frac[k + 1]
                 more == sticky \/ AnyNonZero(SubSeq(frac, k + 2, Len(frac)))
                 last == IF k > 0 THEN frac[k] ELSE ip % 10
                 up   == d > 5 \/ (d = 5 /\ (more \/ last % 2 = 1))
                 inc  == IncDigits(kept)
             IN  IF up THEN [ip |-> ip + inc.carry, frac |-> inc.ds]
                 ELSE [ip |-> ip, frac |-> kept]

RoundDec(neg, ip, frac, sticky) ==
    LET r == RoundMag(ip, frac, sticky) IN MkDec(neg, r.ip, r.frac)

\* Decimal(n) for an int n
DecFromInt(n) == MkDec(n < 0, Abs(n), <<>>)

\* Decimal(str(x)) for a JSON number x written with two decimals: c / 100
DecFromCenti(c) ==
    MkDec(c < 0, Abs(c) \div 100, <<(Abs(c) % 100) \div 10, Abs(c) % 10>>)

DecZero == DecFromInt(0)

DecNeg(a) == MkDec(~a.neg, a.ip, a.frac)

FracLess(x, y) ==
    LET n  == Max2(Len(x), Len(y))
        px == Pad(x, n)
        py == Pad(y, n)
    IN  \E i \in 1..n : px[i] < py[i] /\ \A j \in 1..(i - 1) : px[j] = py[j]

MagLess(a, b) == a.ip < b.ip \/ (a.ip = b.ip /\ FracLess(a.frac, b.frac))

\* a < b
DecLess(a, b) ==
    IF a.neg /\ ~b.neg THEN TRUE
    ELSE IF ~a.neg /\ b.neg THEN FALSE
    ELSE IF a.neg THEN MagLess(b, a)
    ELSE MagLess(a, b)

DecLeq(a, b) == a = b \/ DecLess(a, b)

\* max(a, b)
DecMax(a, b) == IF DecLess(a, b) THEN b ELSE a

RECURSIVE AddDigits(_, _)
AddDigits(x, y) ==
    IF x = <<>> THEN [carry |-> 0, ds |-> <<>>]
    ELSE LET r == AddDigits(Tail(x), Tail(y))
             v == Head(x) + Head(y) + r.carry
         IN  [carry |-> v \div 10, ds |-> <<v % 10>> \o r.ds]

RECURSIVE SubDigits(_, _)
SubDigits(x, y) ==
    IF x = <<>> THEN [borrow |-> 0, ds |-> <<>>]
    ELSE LET r == SubDigits(Tail(x), Tail(y))
             v == Head(x) - Head(y) - r.borrow
         IN  IF v < 0 THEN [borrow |-> 1, ds |-> <<v + 10>> \o r.ds]
             ELSE [borrow |-> 0, ds |-> <<v>> \o r.ds]

\* a + b
DecAdd(a, b) ==
    LET n  == Max2(Len(a.frac), Len(b.frac))
        fa == Pad(a.frac, n)
        fb == Pad(b.frac, n)
    IN  IF a.neg = b.neg
        THEN LET s == AddDigits(fa, fb)
             IN  RoundDec(a.neg, a.ip + b.ip + s.carry, s.ds, FALSE)
        ELSE IF MagLess(a, b)
        THEN LET s == SubDigits(fb, fa)
             IN  RoundDec(b.neg, b.ip - a.ip - s.borrow, s.ds, FALSE)
        ELSE LET s == SubDigits(fa, fb)
             IN  RoundDec(a.neg, a.ip - b.ip - s.borrow, s.ds, FALSE)

\* a - b
DecSub(a, b) == DecAdd(a, DecNeg(b))

RECURSIVE MulDigits(_, _)
MulDigits(ds, m) ==
    IF ds = <<>> THEN [carry |-> 0, ds |-> <<>>]
    ELSE LET r == MulDigits(Tail(ds), m)
             v == Head(ds) * m + r.carry
         IN  [carry |-> v \div 10, ds |-> <<v % 10>> \o r.ds]

\* a * Decimal(m) for an int m
DecMulInt(a, m) ==
    LET p == MulDigits(a.frac, Abs(m))
    IN  RoundDec(a.neg # (m < 0), a.ip * Abs(m) + p.carry, p.ds, FALSE)

\* k digits of r / m for 0 <= r < m, and the remainder left after them
RECURSIVE DivDigits(_, _, _)
DivDigits(r, m, k) ==
    IF k = 0 \/ r = 0 THEN [ds |-> <<>>, rem |-> r]
    ELSE LET rest == DivDigits((r * 10) % m, m, k - 1)
         IN  [ds |-> <<(r * 10) \div m>> \o rest.ds, rem |-> rest.rem]

\* Decimal(n) / Decimal(m) for ints n and m > 0
DecDivInt(n, m) ==
    LET q == DivDigits(Abs(n) % m, m, Prec + NumDigits(m) + 1)
    IN  RoundDec(n < 0, Abs(n) \div m, q.ds, q.rem # 0)

\* round(a): to the nearest int, ties to the even one
DecRound(a) ==
    LET up == a.frac # <<>> /\
              (a.frac[1] > 5 \/
               (a.frac[1] = 5 /\ (Len(a.frac) > 1 \/ a.ip % 2 = 1)))
        mag == IF up THEN a.ip + 1 ELSE a.ip
    IN  IF a.neg THEN 0 - mag ELSE mag

\* int(a.to_integral_value(rounding=ROUND_HALF_UP)): ties away from zero
DecHalfUp(a) ==
    LET up == a.frac # <<>> /\ a.frac[1] >= 5
        mag == IF up THEN a.ip + 1 ELSE a.ip
    IN  IF a.neg THEN 0 - mag ELSE mag

\* math.ceil(a)
DecCeil(a) ==
    IF a.neg THEN 0 - a.ip
    ELSE IF a.frac # <<>> THEN a.ip + 1 ELSE a.ip

\* int(a): truncation towards zero
DecTrunc(a) == IF a.neg THEN 0 - a.ip ELSE a.ip

IsWhole(a) == a.frac = <<>>


(***************************************************************************)
(* avtools/common/fcpxml_utils.py                                          *)
(***************************************************************************)
\* a timestamp that Decimal(str(x)) rejects, or a dict without the key
Malformed == [nan |-> TRUE]

\* snap_to_frame_grid(time_sec, frame_rate)
snap_to_frame_grid(t, rate) ==
    LET snap_frames == DecRound(DecMulInt(t, rate))
    IN  DecDivInt(snap_frames, rate)

\* seconds_to_timeline_time(seconds, timebase, frame_rate, round_up): the
\* numerator N of the returned "N/<timebase>s"
seconds_to_timeline_time(seconds, tb, rate, up) ==
    IF seconds = Malformed THEN 0
    ELSE LET product == DecMulInt(seconds, rate)
             nframes == IF up THEN DecCeil(product) ELSE DecHalfUp(product)
             timebase_units_per_frame == DecDivInt(tb, rate)
         IN  DecTrunc(DecMulInt(timebase_units_per_frame, nframes))

(***************************************************************************)
(* Standard-library pieces the assemblers call                             *)
(***************************************************************************)
RECURSIVE InsertDec(_, _)
InsertDec(s, x) ==
    IF s = <<>> THEN <<x>>
    ELSE IF DecLess(x, Head(s)) THEN <<x>> \o s
    ELSE <<Head(s)>> \o InsertDec(Tail(s), x)

\* sorted(list of Decimal)
RECURSIVE sorted(_)
sorted(s) ==
    IF s = <<>> THEN <<>>
    ELSE InsertDec(sorted(SubSeq(s, 1, Len(s) - 1)), s[Len(s)])

RECURSIVE bisect_loop(_, _, _, _)
bisect_loop(a, x, lo, hi) ==
    IF lo < hi
    THEN LET mid == (lo + hi) \div 2
         IN  IF DecLess(a[mid + 1], x) THEN bisect_loop(a, x, mid + 1, hi)
             ELSE bisect_loop(a, x, lo, mid)
    ELSE lo

\* bisect.bisect_left(a, x): 0-based insertion point
bisect_left(a, x) == bisect_loop(a, x, 0, Len(a))

\* max(list of Decimal), for a non-empty list
RECURSIVE MaxOf(_)
MaxOf(s) == IF Len(s) = 1 THEN s[1] ELSE DecMax(s[1], MaxOf(Tail(s)))


\* adjusted_start with the bisect index taken one place too far
adjusted_start_skips_one(snapped_start_sec, dl) ==
    IF dl = <<>> THEN snapped_start_sec
    ELSE IF \E k \in 1..Len(dl) : dl[k] = snapped_start_sec
    THEN snapped_start_sec
    ELSE LET next_downbeat_idx == bisect_left(dl, snapped_start_sec) + 1
         IN  IF next_downbeat_idx < Len(dl) THEN dl[next_downbeat_idx + 1]
             ELSE snapped_start_sec

\* adjusted_start moving a start that is not a downbeat to the last
\* downbeat of the list instead of the next one
adjusted_start_to_last(snapped_start_sec, dl) ==
    IF dl = <<>> THEN snapped_start_sec
    ELSE IF \E k \in 1..Len(dl) : dl[k] = snapped_start_sec
    THEN snapped_start_sec
    ELSE LET next_downbeat_idx == bisect_left(dl, snapped_start_sec)
         IN  IF next_downbeat_idx < Len(dl) THEN dl[Len(dl)]
             ELSE snapped_start_sec

\* lines 151-163 of the audio assembler: the start of a segment moved to a
\* downbeat of the sorted list
adjusted_start(snapped_start_sec, dl) ==
    IF dl = <<>> THEN snapped_start_sec
    ELSE IF \E k \in 1..Len(dl) : dl[k] = snapped_start_sec
    THEN snapped_start_sec
    ELSE LET next_downbeat_idx == bisect_left(dl, snapped_start_sec)
         IN  IF next_downbeat_idx < Len(dl) THEN dl[next_downbeat_idx + 1]
             ELSE snapped_start_sec

RECURSIVE InsertShot(_, _)
InsertShot(s, x) ==
    IF s = <<>> THEN <<x>>
    ELSE IF DecLess(x.start_sec, Head(s).start_sec) THEN <<x>> \o s
    ELSE <<Head(s)>> \o InsertShot(Tail(s), x)

\* processed_shots.sort(key=lambda x: x['start_sec']): a stable sort
RECURSIVE sort_by_start(_)
sort_by_start(s) ==
    IF s = <<>> THEN <<>>
    ELSE InsertShot(sort_by_start(SubSeq(s, 1, Len(s) - 1)), s[Len(s)])

(***************************************************************************)
(* avtools/common/otio_utils.py: times of the OTIO timeline                *)
(***************************************************************************)
\* a double product float(seconds) * frame_rate differs from the Decimal
\* product by less than 10^-12 frame for the times used here; RationalTime
\* values are kept to FloatPlaces decimal places of a frame
FloatPlaces == 9

\* a rounded to FloatPlaces decimal places, ties to even
DecQuantize(a) ==
    IF Len(a.frac) <= FloatPlaces THEN a
    ELSE LET kept == SubSeq(a.frac, 1, FloatPlaces)
             d    == a.frac[FloatPlaces + 1]
             more == AnyNonZero(SubSeq(a.frac, FloatPlaces + 2, Len(a.frac)))
             up   == d > 5 \/ (d = 5 /\ (more \/ kept[FloatPlaces] % 2 = 1))
             inc  == IncDigits(kept)
         IN  IF up THEN MkDec(a.neg, a.ip + inc.carry, inc.ds)
             ELSE MkDec(a.neg, a.ip, kept)

\* otio.opentime.RationalTime(float(seconds) * frame_rate, frame_rate): its
\* value, a number of frames
RationalTime(seconds, rate) == DecQuantize(DecMulInt(seconds, rate))

\* the position of item k of a track: the sum of the durations of the
\* items appended before it
RECURSIVE range_in_parent_start(_, _)
range_in_parent_start(track, k) ==
    IF k <= 1 THEN DecZero
    ELSE DecQuantize(DecAdd(range_in_parent_start(track, k - 1),
                            track[k - 1].duration))

(***************************************************************************)
(* Inputs                                                                  *)
(***************************************************************************)
\* longest segments list and longest shots list of an input
MaxSegments == 3
MaxShots == 3
\* raw times given to the conversion functions: -MinCenti/100 .. MaxCenti/100
MinCenti == 3
MaxCenti == 20

\* integer frame rates: 1/24 and 1/30 have no finite decimal expansion,
\* 1/25 and 1/50 have one
FrameRates == {24, 25, 30, 50}
AssemblerRates == {24, 50}

\* JSON numbers, in hundredths of a second
Sec(c) == DecFromCenti(c)

SegmentInputs ==
    { [start |-> Sec(0),  end |-> Sec(17)],
      [start |-> Sec(3),  end |-> Sec(17)],
      [start |-> Sec(17), end |-> Sec(50)],
      [start |-> Sec(50), end |-> Sec(50)],
      [start |-> Sec(3),  end |-> Malformed] }

DownbeatInputs == { <<>>, <<Sec(17), Sec(0)>>, <<Sec(60), Sec(3)>>,
                    <<Malformed>> }

BeatInputs == { <<>>, <<Sec(3), Sec(56)>>, <<Sec(3), Malformed>> }

DurationInputs == { Sec(40), Sec(101), Sec(104) }

ShotInputs ==
    { [time_offset |-> Sec(0),  time_duration |-> Sec(17)],
      [time_offset |-> Sec(0),  time_duration |-> Sec(50)],
      [time_offset |-> Sec(17), time_duration |-> Sec(33)],
      [time_offset |-> Sec(50), time_duration |-> Sec(0)],
      [time_offset |-> Malformed, time_duration |-> Sec(17)] }

SeqsUpTo(S, n) == UNION { [1..k -> S] : k \in 0..n }

NoInfo == [none |-> TRUE]

(***************************************************************************)
(* State                                                                   *)
(***************************************************************************)
VARIABLES
    pc,                 \* position in the function being run
    result,             \* "True" or "False" once create_fcpxml_from_data
                        \* returns, "raised" when an exception leaves it
    frame_rate,
    timebase,
    json_data,          \* the parsed input JSON
    media_info,         \* audio_info / video_info, or NoInfo (None)
    path_exists,        \* audio_path.exists()
    i,                  \* index of the running for-loop (1-based)
    beats,
    downbeats_list,
    adjusted_segments,
    processed_shots,
    max_event_time_sec,
    timeline_duration_sec,
    total_timeline_duration_fcpxml,
    main_clip,          \* the asset-clip of the media and its markers
    placeholder_clips,  \* the <video> placeholders of lane 1, in emission order
    shot_clips,         \* the asset-clips of lane 3, in emission order
    time_sec,           \* argument of the conversion functions
    round_up,
    frames,
    snapped_sec,
    resnapped_sec,
    snapped_units,
    raw_units,
    media_type,         \* 'video' or 'audio': which create_*_timeline runs
    media_path,         \* video_path_str / audio_path_str, "" when not given
    elements,           \* the element dicts given to create_timeline_from_elements
    video_track,        \* items of the OTIO track "Video", in append order
    audio_track,        \* items of the OTIO track "Audio", in append order
    request,            \* the call: function, arguments, state of the input
                        \* file, top-level keys of the JSON
    files_written       \* the files the call has written, with their content

vars == << pc, result, frame_rate, timebase, json_data, media_info,
           path_exists, i, beats, downbeats_list, adjusted_segments,
           processed_shots, max_event_time_sec, timeline_duration_sec,
           total_timeline_duration_fcpxml, main_clip, placeholder_clips,
           shot_clips, time_sec, round_up, frames, snapped_sec,
           resnapped_sec, snapped_units, raw_units, media_type, media_path,
           elements, video_track, audio_track, request, files_written >>

callVars == << request, files_written >>

otioVars == << media_type, media_path, elements, video_track, audio_track >>

assemblerVars == << json_data, media_info, path_exists, i, beats,
                    downbeats_list, adjusted_segments, processed_shots,
                    max_event_time_sec, timeline_duration_sec,
                    total_timeline_duration_fcpxml, main_clip,
                    placeholder_clips, shot_clips >>

timeVars == << time_sec, round_up, frames, snapped_sec, resnapped_sec,
               snapped_units, raw_units >>

NoClip == [offset |-> 0, duration |-> 0, markers |-> <<>>]

AssemblerIdle ==
    /\ json_data = [beats |-> <<>>, downbeats |-> <<>>, segments |-> <<>>,
                    shots |-> <<>>]
    /\ media_info = NoInfo
    /\ path_exists = FALSE
    /\ i = 0
    /\ beats = <<>>
    /\ downbeats_list = <<>>
    /\ adjusted_segments = <<>>
    /\ processed_shots = <<>>
    /\ max_event_time_sec = DecZero
    /\ timeline_duration_sec = DecZero
    /\ total_timeline_duration_fcpxml = 0
    /\ main_clip = NoClip
    /\ placeholder_clips = <<>>
    /\ shot_clips = <<>>

OtioIdle ==
    /\ media_type = "none"
    /\ media_path = ""
    /\ elements = <<>>
    /\ video_track = <<>>
    /\ audio_track = <<>>

\* no call of json_to_timeline or timeline_to_pygenometracks is modelled
NoRequest == [call |-> "none", keys |-> {}, input |-> "none",
              media_type |-> "none", format |-> "none", available |-> FALSE]

CallIdle ==
    /\ request = NoRequest
    /\ files_written = {}

TimeIdle ==
    /\ time_sec = DecZero
    /\ round_up = FALSE
    /\ frames = 0
    /\ snapped_sec = DecZero
    /\ resnapped_sec = DecZero
    /\ snapped_units = 0
    /\ raw_units = 0

(***************************************************************************)
(* The conversion functions run on their own:                              *)
(*   t = snap_to_frame_grid(x, fr); snap_to_frame_grid(t, fr);             *)
(*   seconds_to_timeline_time(t, tb, fr, ru);                              *)
(*   seconds_to_timeline_time(x, tb, fr, ru)                               *)
(***************************************************************************)
TimeInputs == { Sec(c) : c \in (0 - MinCenti)..MaxCenti } \cup { Malformed }

InitTime ==
    /\ pc = "snap"
    /\ result = "none"
    /\ frame_rate \in FrameRates
    /\ \E mult \in {100, 1000} : timebase = frame_rate * mult
    /\ time_sec \in TimeInputs
    /\ round_up \in BOOLEAN
    /\ frames = 0
    /\ snapped_sec = DecZero
    /\ resnapped_sec = DecZero
    /\ snapped_units = 0
    /\ raw_units = 0
    /\ AssemblerIdle
    /\ OtioIdle
    /\ CallIdle

\* snap_to_frame_grid(time_sec, frame_rate); Decimal(str(x)) raises on a
\* malformed x and nothing is snapped
SnapTime ==
    /\ pc = "snap"
    /\ IF time_sec = Malformed
       THEN /\ pc' = "convert_raw"
            /\ UNCHANGED << frames, snapped_sec >>
       ELSE /\ frames' = DecRound(DecMulInt(time_sec, frame_rate))
            /\ snapped_sec' = snap_to_frame_grid(time_sec, frame_rate)
            /\ pc' = "resnap"
    /\ UNCHANGED << callVars, result, frame_rate, timebase, time_sec, round_up,
                    resnapped_sec, snapped_units, raw_units, assemblerVars, otioVars >>

\* snap_to_frame_grid applied to its own result
SnapAgain ==
    /\ pc = "resnap"
    /\ resnapped_sec' = snap_to_frame_grid(snapped_sec, frame_rate)
    /\ pc' = "convert"
    /\ UNCHANGED << callVars, result, frame_rate, timebase, time_sec, round_up, frames,
                    snapped_sec, snapped_units, raw_units, assemblerVars, otioVars >>

\* seconds_to_timeline_time of the snapped time
ConvertSnapped ==
    /\ pc = "convert"
    /\ snapped_units' =
           seconds_to_timeline_time(snapped_sec, timebase, frame_rate, round_up)
    /\ pc' = "convert_raw"
    /\ UNCHANGED << callVars, result, frame_rate, timebase, time_sec, round_up, frames,
                    snapped_sec, resnapped_sec, raw_units, assemblerVars, otioVars >>

\* seconds_to_timeline_time of the raw argument
ConvertRaw ==
    /\ pc = "convert_raw"
    /\ raw_units' =
           seconds_to_timeline_time(time_sec, timebase, frame_rate, round_up)
    /\ pc' = "done"
    /\ UNCHANGED << callVars, result, frame_rate, timebase, time_sec, round_up, frames,
                    snapped_sec, resnapped_sec, snapped_units, assemblerVars, otioVars >>

NextTime == SnapTime \/ SnapAgain \/ ConvertSnapped \/ ConvertRaw

SpecTime == InitTime /\ [][NextTime]_vars


(***************************************************************************)
(* avtools/audio/fcpxml.py: create_fcpxml_from_data                        *)
(***************************************************************************)
InitAudio ==
    /\ pc = "start"
    /\ result = "none"
    /\ frame_rate \in AssemblerRates
    /\ timebase = 0
    /\ \E b \in BeatInputs, d \in DownbeatInputs,
          segs \in SeqsUpTo(SegmentInputs, MaxSegments) :
          json_data = [beats |-> b, downbeats |-> d, segments |-> segs,
                       shots |-> <<>>]
    /\ \/ /\ media_info \in { [duration |-> d] : d \in DurationInputs }
          /\ path_exists \in BOOLEAN
       \/ /\ media_info = NoInfo
          /\ path_exists = TRUE
    /\ i = 0
    /\ beats = <<>>
    /\ downbeats_list = <<>>
    /\ adjusted_segments = <<>>
    /\ processed_shots = <<>>
    /\ max_event_time_sec = DecZero
    /\ timeline_duration_sec = DecZero
    /\ total_timeline_duration_fcpxml = 0
    /\ main_clip = NoClip
    /\ placeholder_clips = <<>>
    /\ shot_clips = <<>>
    /\ TimeIdle
    /\ OtioIdle
    /\ CallIdle

HasMalformed(s) == \E k \in 1..Len(s) : s[k] = Malformed

\* lines 90-129: no audio info, a missing media file or a beat that is not a
\* number end the conversion; otherwise beats and downbeats are snapped
AudioExtract ==
    /\ pc = "start"
    /\ IF \/ media_info = NoInfo
          \/ ~path_exists
          \/ HasMalformed(json_data.beats)
          \/ HasMalformed(json_data.downbeats)
       THEN /\ result' = "False"
            /\ pc' = "aborted"
            /\ UNCHANGED << timebase, beats, downbeats_list, i >>
       ELSE /\ timebase' = frame_rate * 1000
            /\ beats' = [k \in 1..Len(json_data.beats) |->
                            snap_to_frame_grid(json_data.beats[k], frame_rate)]
            /\ downbeats_list' =
                   sorted([k \in 1..Len(json_data.downbeats) |->
                            snap_to_frame_grid(json_data.downbeats[k], frame_rate)])
            /\ i' = 1
            /\ pc' = "segments"
            /\ UNCHANGED result
    /\ UNCHANGED << callVars, frame_rate, json_data, media_info, path_exists,
                    adjusted_segments, processed_shots, max_event_time_sec,
                    timeline_duration_sec, total_timeline_duration_fcpxml,
                    main_clip, placeholder_clips, shot_clips, timeVars, otioVars >>

SegmentIsMalformed(seg) ==
    seg = Malformed \/ seg.start = Malformed \/ seg.end = Malformed

\* the loop over segments with the append made before the end of the
\* segment is read: a segment with a bad end leaves its start behind
AudioAdjustSegment_appends_first ==
    /\ pc = "segments"
    /\ i <= Len(json_data.segments)
    /\ LET seg == json_data.segments[i]
       IN  IF seg = Malformed \/ seg.start = Malformed
           THEN UNCHANGED << adjusted_segments, max_event_time_sec >>
           ELSE LET snapped_start_sec == snap_to_frame_grid(seg.start, frame_rate)
                    adjusted_start_sec ==
                        adjusted_start(snapped_start_sec, downbeats_list)
                IN  /\ adjusted_segments' =
                           Append(adjusted_segments,
                                  [adjusted_start |-> adjusted_start_sec,
                                   label |-> i])
                    /\ max_event_time_sec' =
                           IF seg.end = Malformed THEN max_event_time_sec
                           ELSE DecMax(max_event_time_sec,
                                       snap_to_frame_grid(seg.end, frame_rate))
    /\ i' = i + 1
    /\ UNCHANGED << callVars, pc, result, frame_rate, timebase, json_data, media_info,
                    path_exists, beats, downbeats_list, processed_shots,
                    timeline_duration_sec, total_timeline_duration_fcpxml,
                    main_clip, placeholder_clips, shot_clips, timeVars, otioVars >>

\* lines 140-169: one turn of the loop over segments
AudioAdjustSegment ==
    /\ pc = "segments"
    /\ i <= Len(json_data.segments)
    /\ LET seg == json_data.segments[i]
       IN  IF SegmentIsMalformed(seg)
           THEN UNCHANGED << adjusted_segments, max_event_time_sec >>
           ELSE LET snapped_start_sec == snap_to_frame_grid(seg.start, frame_rate)
                    snapped_end_sec == snap_to_frame_grid(seg.end, frame_rate)
                    adjusted_start_sec ==
                        adjusted_start(snapped_start_sec, downbeats_list)
                IN  /\ adjusted_segments' =
                           Append(adjusted_segments,
                                  [adjusted_start |-> adjusted_start_sec,
                                   label |-> i])
                    /\ max_event_time_sec' =
                           DecMax(max_event_time_sec, snapped_end_sec)
    /\ i' = i + 1
    /\ UNCHANGED << callVars, pc, result, frame_rate, timebase, json_data, media_info,
                    path_exists, beats, downbeats_list, processed_shots,
                    timeline_duration_sec, total_timeline_duration_fcpxml,
                    main_clip, placeholder_clips, shot_clips, timeVars, otioVars >>

\* lines 171-178: the frame-aligned total duration
AudioTimelineDuration ==
    /\ pc = "segments"
    /\ i > Len(json_data.segments)
    /\ LET with_beats == IF beats # <<>>
                         THEN DecMax(max_event_time_sec, MaxOf(beats))
                         ELSE max_event_time_sec
           total == snap_to_frame_grid(DecMax(media_info.duration, with_beats),
                                       frame_rate)
       IN  /\ max_event_time_sec' = with_beats
           /\ timeline_duration_sec' = total
           /\ total_timeline_duration_fcpxml' =
                  seconds_to_timeline_time(total, timebase, frame_rate, TRUE)
    /\ pc' = "main"
    /\ UNCHANGED << callVars, result, frame_rate, timebase, json_data, media_info,
                    path_exists, i, beats, downbeats_list, adjusted_segments,
                    processed_shots, main_clip, placeholder_clips, shot_clips,
                    timeVars, otioVars >>

\* lines 209-225: the audio asset-clip with a marker per beat and downbeat
AudioMainClip ==
    /\ pc = "main"
    /\ main_clip' =
           [offset |-> 0,
            duration |-> total_timeline_duration_fcpxml,
            markers |->
                [k \in 1..Len(beats) |->
                    [start |-> seconds_to_timeline_time(beats[k], timebase,
                                                        frame_rate, FALSE),
                     duration |-> 1, value |-> <<"Beat", k>>]]
                \o
                [k \in 1..Len(downbeats_list) |->
                    [start |-> seconds_to_timeline_time(downbeats_list[k],
                                          timebase, frame_rate, FALSE),
                     duration |-> 1, value |-> <<"Downbeat", k>>]]]
    /\ i' = 1
    /\ pc' = "placeholders"
    /\ UNCHANGED << callVars, result, frame_rate, timebase, json_data, media_info,
                    path_exists, beats, downbeats_list, adjusted_segments,
                    processed_shots, max_event_time_sec, timeline_duration_sec,
                    total_timeline_duration_fcpxml, placeholder_clips,
                    shot_clips, timeVars, otioVars >>

\* lines 230-268: one turn of the loop over adjusted_segments
AudioPlaceholder ==
    /\ pc = "placeholders"
    /\ i <= Len(adjusted_segments)
    /\ LET seg_start_sec == adjusted_segments[i].adjusted_start
           next_sec == IF i + 1 <= Len(adjusted_segments)
                       THEN adjusted_segments[i + 1].adjusted_start
                       ELSE timeline_duration_sec
           placeholder_end_sec == DecMax(seg_start_sec, next_sec)
           placeholder_duration_sec == DecSub(placeholder_end_sec, seg_start_sec)
       IN  IF DecLeq(placeholder_duration_sec, DecZero)
           THEN UNCHANGED placeholder_clips
           ELSE placeholder_clips' =
                    Append(placeholder_clips,
                           [offset |-> seconds_to_timeline_time(seg_start_sec,
                                           timebase, frame_rate, FALSE),
                            duration |-> seconds_to_timeline_time(
                                           placeholder_duration_sec, timebase,
                                           frame_rate, TRUE),
                            start_sec |-> seg_start_sec,
                            end_sec |-> placeholder_end_sec,
                            label |-> adjusted_segments[i].label,
                            markers |-> <<>>])
    /\ i' = i + 1
    /\ UNCHANGED << callVars, pc, result, frame_rate, timebase, json_data, media_info,
                    path_exists, beats, downbeats_list, adjusted_segments,
                    processed_shots, max_event_time_sec, timeline_duration_sec,
                    total_timeline_duration_fcpxml, main_clip, shot_clips,
                    timeVars, otioVars >>

\* DownbeatsWithin taking the downbeat at hi as well
RECURSIVE DownbeatsWithin_includes_end(_, _, _)
DownbeatsWithin_includes_end(dl, lo, hi) ==
    IF dl = <<>> THEN <<>>
    ELSE IF DecLess(Head(dl), lo)
    THEN DownbeatsWithin_includes_end(Tail(dl), lo, hi)
    ELSE IF DecLess(hi, Head(dl)) THEN <<>>
    ELSE <<Head(dl)>> \o DownbeatsWithin_includes_end(Tail(dl), lo, hi)

\* the downbeats d with lo <= d < hi, in list order
RECURSIVE DownbeatsWithin(_, _, _)
DownbeatsWithin(dl, lo, hi) ==
    IF dl = <<>> THEN <<>>
    ELSE IF DecLess(Head(dl), lo) THEN DownbeatsWithin(Tail(dl), lo, hi)
    ELSE IF DecLeq(hi, Head(dl)) THEN <<>>
    ELSE <<Head(dl)>> \o DownbeatsWithin(Tail(dl), lo, hi)

\* lines 270-306: downbeat markers inside each placeholder
AudioAttachMarkers ==
    /\ pc = "placeholders"
    /\ i > Len(adjusted_segments)
    /\ placeholder_clips' =
           [k \in 1..Len(placeholder_clips) |->
               LET ph == placeholder_clips[k]
                   within == DownbeatsWithin(downbeats_list, ph.start_sec,
                                             ph.end_sec)
               IN  [ph EXCEPT !.markers =
                       [n \in 1..Len(within) |->
                           [start |-> seconds_to_timeline_time(
                                          DecSub(within[n], ph.start_sec),
                                          timebase, frame_rate, FALSE),
                            duration |-> 1,
                            value |-> <<ph.label, "DB", n>>]]]]
    /\ pc' = "elements"
    /\ UNCHANGED << callVars, result, frame_rate, timebase, json_data, media_info,
                    path_exists, i, beats, downbeats_list, adjusted_segments,
                    processed_shots, max_event_time_sec, timeline_duration_sec,
                    total_timeline_duration_fcpxml, main_clip, shot_clips,
                    timeVars, otioVars >>

(***************************************************************************)
(* avtools/audio/fcpxml_otio.py: create_fcpxml_from_data.  Its lines 82-143 *)
(* are those of the native assembler up to timeline_duration_sec, so the   *)
(* OTIO emitter is run here on the same input and the same adjusted        *)
(* segments, after the native one.                                         *)
(***************************************************************************)
\* lines 172-195 (io.py 758-781): the placeholder dicts, in list order.  The
\* name 0 stands for the media file name, other names are segment labels.
RECURSIVE placeholder_elements(_, _, _)
placeholder_elements(adj, k, total) ==
    IF k > Len(adj) THEN <<>>
    ELSE LET seg_start_sec == adj[k].adjusted_start
             next_sec == IF k + 1 <= Len(adj) THEN adj[k + 1].adjusted_start
                         ELSE total
             placeholder_end_sec == DecMax(seg_start_sec, next_sec)
             placeholder_duration_sec == DecSub(placeholder_end_sec,
                                                seg_start_sec)
         IN  (IF DecLeq(placeholder_duration_sec, DecZero) THEN <<>>
              ELSE << [name |-> adj[k].label,
                       start_time |-> seg_start_sec,
                       duration |-> placeholder_duration_sec,
                       is_audio |-> FALSE,
                       markers |-> <<>>] >>)
             \o placeholder_elements(adj, k + 1, total)

\* lines 147-170 (io.py 733-755): the clip of the media with a marker per
\* beat and per downbeat
audio_clip_element(total, bs, dl) ==
    [name |-> 0, start_time |-> DecZero, duration |-> total, is_audio |-> TRUE,
     markers |-> bs \o dl]

\* lines 145-195 of fcpxml_otio.py
OtioAudioElements ==
    /\ pc = "elements"
    /\ elements' =
           << audio_clip_element(timeline_duration_sec, beats, downbeats_list) >>
           \o placeholder_elements(adjusted_segments, 1, timeline_duration_sec)
    /\ pc' = "timeline"
    /\ UNCHANGED << callVars, result, frame_rate, timebase, assemblerVars, timeVars,
                    media_type, media_path, video_track, audio_track >>

\* otio_utils.py lines 43-76: the otio.schema.Clip made of an element
track_item(elem, rate) ==
    [name |-> elem.name,
     start_time |-> RationalTime(elem.start_time, rate),
     duration |-> RationalTime(elem.duration, rate),
     markers |-> [k \in 1..Len(elem.markers) |->
                     RationalTime(elem.markers[k], rate)],
     \* line 67: marker_duration = RationalTime(1, frame_rate), in frames
     marker_duration |-> DecFromInt(1)]

IsAudioElement(elem) == elem.is_audio

IsVideoElement(elem) == ~elem.is_audio

\* otio_utils.py lines 11-87: every clip is appended to the track "Audio"
\* or to the track "Video"
create_timeline_from_elements ==
    /\ pc = "timeline"
    /\ LET video_elems == SelectSeq(elements, IsVideoElement)
           audio_elems == SelectSeq(elements, IsAudioElement)
       IN  /\ video_track' = [k \in 1..Len(video_elems) |->
                                 track_item(video_elems[k], frame_rate)]
           /\ audio_track' = [k \in 1..Len(audio_elems) |->
                                 track_item(audio_elems[k], frame_rate)]
    /\ pc' = "write"
    /\ UNCHANGED << callVars, result, frame_rate, timebase, assemblerVars, timeVars,
                    media_type, media_path, elements >>

\* fcpxml_utils.py lines 63-70 on the root of create_base_fcpxml (line 80):
\* the first lines of the string the native emitters write
prettify_xml ==
    << "<?xml version=\"1.0\" encoding=\"UTF-8\"?>", "<!DOCTYPE fcpxml>",
       "<fcpxml version=\"1.13\">" >>

\* lines 308-317 (audio), 310-319 (video), write_timeline_to_fcpxml: the
\* file is written, or the write raises and the conversion reports failure
WriteFile ==
    /\ pc = "write"
    /\ \E written \in BOOLEAN :
           /\ files_written' =
                  IF written
                  THEN { [kind |-> "fcpxml", content |-> prettify_xml] }
                  ELSE {}
           /\ result' = IF written THEN "True" ELSE "False"
    /\ pc' = "done"
    /\ UNCHANGED << request, frame_rate, timebase, assemblerVars, timeVars,
                    otioVars >>

NextAudio ==
    \/ AudioExtract
    \/ AudioAdjustSegment
    \/ AudioTimelineDuration
    \/ AudioMainClip
    \/ AudioPlaceholder
    \/ AudioAttachMarkers
    \/ OtioAudioElements
    \/ create_timeline_from_elements
    \/ WriteFile

SpecAudio == InitAudio /\ [][NextAudio]_vars


(***************************************************************************)
(* avtools/video/fcpxml.py: create_fcpxml_from_data                        *)
(***************************************************************************)
InitVideo ==
    /\ pc = "start"
    /\ result = "none"
    /\ frame_rate \in AssemblerRates
    /\ timebase = 0
    /\ \E sh \in SeqsUpTo(ShotInputs, MaxShots) :
          json_data = [beats |-> <<>>, downbeats |-> <<>>, segments |-> <<>>,
                       shots |-> sh]
    /\ media_info \in { [duration |-> d] : d \in DurationInputs } \cup { NoInfo }
    /\ path_exists = TRUE
    /\ i = 0
    /\ beats = <<>>
    /\ downbeats_list = <<>>
    /\ adjusted_segments = <<>>
    /\ processed_shots = <<>>
    /\ max_event_time_sec = DecZero
    /\ timeline_duration_sec = DecZero
    /\ total_timeline_duration_fcpxml = 0
    /\ main_clip = NoClip
    /\ placeholder_clips = <<>>
    /\ shot_clips = <<>>
    /\ TimeIdle
    /\ OtioIdle
    /\ CallIdle

\* lines 115-187: no video info or no shots end the conversion; an integer
\* frame rate gets the timebase 100 * frame_rate
VideoExtract ==
    /\ pc = "start"
    /\ IF media_info = NoInfo \/ json_data.shots = <<>>
       THEN /\ result' = "False"
            /\ pc' = "aborted"
            /\ UNCHANGED << timebase, i >>
       ELSE /\ timebase' = frame_rate * 100
            /\ i' = 1
            /\ pc' = "shots"
            /\ UNCHANGED result
    /\ UNCHANGED << callVars, frame_rate, json_data, media_info, path_exists, beats,
                    downbeats_list, adjusted_segments, processed_shots,
                    max_event_time_sec, timeline_duration_sec,
                    total_timeline_duration_fcpxml, main_clip,
                    placeholder_clips, shot_clips, timeVars, otioVars >>

ShotIsMalformed(shot) ==
    shot = Malformed \/ shot.time_offset = Malformed
                     \/ shot.time_duration = Malformed

\* lines 191-205: one turn of the loop over shots; nothing catches the
\* exception a malformed shot raises
VideoProcessShot ==
    /\ pc = "shots"
    /\ i <= Len(json_data.shots)
    /\ LET shot == json_data.shots[i]
       IN  IF ShotIsMalformed(shot)
           THEN /\ result' = "raised"
                /\ pc' = "aborted"
                /\ UNCHANGED << processed_shots, i >>
           ELSE /\ processed_shots' =
                       Append(processed_shots,
                              [index |-> i,
                               start_sec |-> snap_to_frame_grid(
                                                 shot.time_offset, frame_rate),
                               end_sec |-> snap_to_frame_grid(
                                               DecAdd(shot.time_offset,
                                                      shot.time_duration),
                                               frame_rate)])
                /\ i' = i + 1
                /\ UNCHANGED << pc, result >>
    /\ UNCHANGED << callVars, frame_rate, timebase, json_data, media_info, path_exists,
                    beats, downbeats_list, adjusted_segments,
                    max_event_time_sec, timeline_duration_sec,
                    total_timeline_duration_fcpxml, main_clip,
                    placeholder_clips, shot_clips, timeVars, otioVars >>

\* lines 207-220: the shots sorted by start, and the total duration
VideoSortAndDuration ==
    /\ pc = "shots"
    /\ i > Len(json_data.shots)
    /\ LET ordered == sort_by_start(processed_shots)
           max_end == IF ordered # <<>>
                      THEN MaxOf([k \in 1..Len(ordered) |-> ordered[k].end_sec])
                      ELSE DecZero
           total == snap_to_frame_grid(DecMax(media_info.duration, max_end),
                                       frame_rate)
       IN  /\ processed_shots' = ordered
           /\ max_event_time_sec' = max_end
           /\ timeline_duration_sec' = total
           /\ total_timeline_duration_fcpxml' =
                  seconds_to_timeline_time(total, timebase, frame_rate, TRUE)
    /\ pc' = "main"
    /\ UNCHANGED << callVars, result, frame_rate, timebase, json_data, media_info,
                    path_exists, i, beats, downbeats_list, adjusted_segments,
                    main_clip, placeholder_clips, shot_clips, timeVars, otioVars >>

\* lines 256-259: the asset-clip of the whole video in lane 2
VideoMainClip ==
    /\ pc = "main"
    /\ main_clip' = [offset |-> 0,
                     duration |-> total_timeline_duration_fcpxml,
                     markers |-> <<>>]
    /\ i' = 1
    /\ pc' = "clips"
    /\ UNCHANGED << callVars, result, frame_rate, timebase, json_data, media_info,
                    path_exists, beats, downbeats_list, adjusted_segments,
                    processed_shots, max_event_time_sec, timeline_duration_sec,
                    total_timeline_duration_fcpxml, placeholder_clips,
                    shot_clips, timeVars, otioVars >>

\* lines 262-308: one turn of the loop over processed_shots: a marker on
\* the main clip and the shot's own asset-clip in lane 3
VideoShotClip ==
    /\ pc = "clips"
    /\ i <= Len(processed_shots)
    /\ LET shot_info == processed_shots[i]
           shot_start_sec == shot_info.start_sec
           shot_end_sec == IF i < Len(processed_shots)
                           THEN processed_shots[i + 1].start_sec
                           ELSE shot_info.end_sec
           shot_duration_sec == DecSub(shot_end_sec, shot_start_sec)
           start_fcpxml == seconds_to_timeline_time(shot_start_sec, timebase,
                                                    frame_rate, FALSE)
       IN  /\ main_clip' =
                  [main_clip EXCEPT !.markers =
                      Append(@, [start |-> start_fcpxml, duration |-> 1,
                                 value |-> <<"Shot", shot_info.index>>])]
           /\ shot_clips' =
                  Append(shot_clips,
                         [index |-> shot_info.index,
                          offset |-> start_fcpxml,
                          duration |-> seconds_to_timeline_time(
                                           shot_duration_sec, timebase,
                                           frame_rate, TRUE),
                          start |-> start_fcpxml,
                          start_sec |-> shot_start_sec,
                          end_sec |-> shot_end_sec,
                          markers |-> << [start |-> 0, duration |-> 1,
                                          value |-> <<"Shot", shot_info.index>>] >>])
    /\ i' = i + 1
    /\ UNCHANGED << callVars, pc, result, frame_rate, timebase, json_data, media_info,
                    path_exists, beats, downbeats_list, adjusted_segments,
                    processed_shots, max_event_time_sec, timeline_duration_sec,
                    total_timeline_duration_fcpxml, placeholder_clips,
                    timeVars, otioVars >>

\* the loop over processed_shots is over: prettify_xml and open()
VideoClipsDone ==
    /\ pc = "clips"
    /\ i > Len(processed_shots)
    /\ pc' = "write"
    /\ UNCHANGED << callVars, result, frame_rate, timebase, assemblerVars, timeVars, otioVars >>

NextVideo ==
    \/ VideoExtract
    \/ VideoProcessShot
    \/ VideoSortAndDuration
    \/ VideoMainClip
    \/ VideoShotClip
    \/ VideoClipsDone
    \/ WriteFile

SpecVideo == InitVideo /\ [][NextVideo]_vars


(***************************************************************************)
(* avtools/common/timeline/io.py: json_to_timeline with a media_type,      *)
(* running create_video_timeline or create_audio_timeline                  *)
(***************************************************************************)
\* longest shots list and longest segments list given to the unified converter
MaxUnified == 2

\* segments of a video JSON
UnifiedSegmentInputs ==
    { [start |-> Sec(0),  end |-> Sec(17)],
      [start |-> Sec(17), end |-> Sec(50)] }

\* the top-level keys of the input JSON: the audio schema with and without
\* segments, the video schema with and without segments, and a JSON with
\* neither beats nor shots
KeyInputs ==
    { {"path", "beats", "downbeats", "segments"},
      {"path", "beats", "downbeats"},
      {"path", "shots"},
      {"path", "shots", "segments"},
      {"path"} }

\* the media_type argument of json_to_timeline; "none" is None
MediaTypeArgs == {"none", "video", "audio"}

\* class TimelineFormat, lines 33-37
TimelineFormat == {"fcpxml", "otio", "pygenometracks"}

InitUnified ==
    /\ pc = "load"
    /\ result = "none"
    /\ frame_rate \in AssemblerRates
    /\ timebase = 0
    /\ media_type = "none"
    /\ media_path \in {"", "media"}
    /\ IF media_path = "" THEN media_info = NoInfo
       ELSE media_info \in { [duration |-> d] : d \in DurationInputs }
                           \cup { NoInfo }
    /\ \E keys \in KeyInputs :
          /\ request = [NoRequest EXCEPT !.keys = keys]
          /\ \E b \in (IF "beats" \in keys THEN BeatInputs ELSE {<<>>}),
                d \in (IF "downbeats" \in keys THEN DownbeatInputs
                       ELSE {<<>>}),
                sh \in (IF "shots" \in keys
                        THEN SeqsUpTo(ShotInputs, MaxUnified) ELSE {<<>>}),
                segs \in (IF "segments" \notin keys THEN {<<>>}
                          ELSE IF "shots" \in keys
                          THEN SeqsUpTo(UnifiedSegmentInputs, MaxUnified)
                          ELSE SeqsUpTo(SegmentInputs, MaxUnified)) :
                json_data = [beats |-> b, downbeats |-> d, segments |-> segs,
                             shots |-> sh]
    /\ files_written = {}
    /\ path_exists = (media_path # "")
    /\ i = 0
    /\ beats = <<>>
    /\ downbeats_list = <<>>
    /\ adjusted_segments = <<>>
    /\ processed_shots = <<>>
    /\ max_event_time_sec = DecZero
    /\ timeline_duration_sec = DecZero
    /\ total_timeline_duration_fcpxml = 0
    /\ main_clip = NoClip
    /\ placeholder_clips = <<>>
    /\ shot_clips = <<>>
    /\ elements = <<>>
    /\ video_track = <<>>
    /\ audio_track = <<>>
    /\ TimeIdle

\* json_to_timeline lines 83-103: the media type that is used
detected_media_types(arg, keys, path) ==
    IF arg # "none" THEN {arg}
    ELSE IF "shots" \in keys \/ "segments" \in keys THEN {"video"}
    ELSE IF "beats" \in keys \/ "activations" \in keys THEN {"audio"}
    \* lines 91-98: the first probe of media_path that gives something
    \* decides; lines 101-103: 'video' when none does
    ELSE IF path # "" THEN {"video", "audio"}
    ELSE {"video"}

\* json_to_timeline lines 64-103: the input file is opened and parsed, an
\* exception of either step is caught at lines 127-129; then the media
\* type is taken from the argument or detected
JsonLoadAndDetect ==
    /\ pc = "load"
    /\ \E input \in {"ok", "missing", "malformed"}, arg \in MediaTypeArgs :
           /\ request' = [request EXCEPT !.call = "json_to_timeline",
                                         !.input = input,
                                         !.media_type = arg]
           /\ IF input # "ok"
              THEN /\ result' = "False"
                   /\ pc' = "aborted"
                   /\ UNCHANGED media_type
              ELSE /\ media_type' \in detected_media_types(arg, request.keys,
                                                           media_path)
                   /\ pc' = "start"
                   /\ UNCHANGED result
    /\ UNCHANGED << files_written, frame_rate, timebase, assemblerVars,
                    timeVars, media_path, elements, video_track, audio_track >>

\* the loops of create_video_timeline run over the shots, then over the
\* segments, with one running index; after them the timeline is created
after_events(idx) ==
    IF idx > Len(json_data.shots) + Len(json_data.segments) THEN "timeline"
    ELSE "events"

\* create_video_timeline lines 172-222: the duration of the video, or 0.0,
\* and the clip of the video when a path is given
UnifiedVideoMain ==
    /\ pc = "start"
    /\ media_type = "video"
    /\ LET native == IF media_info # NoInfo THEN media_info.duration
                     ELSE DecZero
       IN  /\ timeline_duration_sec' = native
           /\ elements' =
                  IF media_path # ""
                  THEN << [name |-> 0, start_time |-> DecZero,
                           duration |-> native, is_audio |-> FALSE,
                           markers |-> <<>>] >>
                  ELSE <<>>
    /\ i' = 1
    /\ pc' = after_events(1)
    /\ UNCHANGED << callVars, result, frame_rate, timebase, json_data, media_info,
                    path_exists, beats, downbeats_list, adjusted_segments,
                    processed_shots, max_event_time_sec,
                    total_timeline_duration_fcpxml, main_clip,
                    placeholder_clips, shot_clips, timeVars, media_type,
                    media_path, video_track, audio_track >>

\* create_video_timeline lines 224-253: one turn of the loop over shots.
\* Decimal(str(x)) raises on a value that is not a number and
\* json_to_timeline (lines 126-128) turns the exception into False.
UnifiedVideoShot ==
    /\ pc = "events"
    /\ media_type = "video"
    /\ i <= Len(json_data.shots)
    /\ LET shot == json_data.shots[i]
       IN  IF ShotIsMalformed(shot)
           THEN /\ result' = "False"
                /\ pc' = "aborted"
                /\ UNCHANGED << i, timeline_duration_sec, elements >>
           ELSE LET shot_start_sec == snap_to_frame_grid(shot.time_offset,
                                                         frame_rate)
                    shot_end_sec == snap_to_frame_grid(
                                        DecAdd(shot.time_offset,
                                               shot.time_duration),
                                        frame_rate)
                    shot_duration_sec == DecSub(shot_end_sec, shot_start_sec)
                IN  /\ IF DecLeq(shot_duration_sec, DecZero)
                       THEN UNCHANGED << timeline_duration_sec, elements >>
                       ELSE /\ timeline_duration_sec' =
                                   DecMax(timeline_duration_sec, shot_end_sec)
                            /\ elements' =
                                   Append(elements,
                                          [name |-> i,
                                           start_time |-> shot_start_sec,
                                           duration |-> shot_duration_sec,
                                           is_audio |-> FALSE,
                                           markers |-> <<>>])
                    /\ i' = i + 1
                    /\ pc' = after_events(i + 1)
                    /\ UNCHANGED result
    /\ UNCHANGED << callVars, frame_rate, timebase, json_data, media_info, path_exists,
                    beats, downbeats_list, adjusted_segments, processed_shots,
                    max_event_time_sec, total_timeline_duration_fcpxml,
                    main_clip, placeholder_clips, shot_clips, timeVars,
                    media_type, media_path, video_track, audio_track >>

\* create_video_timeline lines 255-278: one turn of the loop over segments
UnifiedVideoSegment ==
    /\ pc = "events"
    /\ media_type = "video"
    /\ i > Len(json_data.shots)
    /\ LET n == i - Len(json_data.shots)
           segment == json_data.segments[n]
           seg_start_sec == snap_to_frame_grid(segment.start, frame_rate)
           seg_end_sec == snap_to_frame_grid(segment.end, frame_rate)
           seg_duration_sec == DecSub(seg_end_sec, seg_start_sec)
       IN  \* lines 255-256 are in no try block: json_to_timeline (lines
           \* 127-129) turns the exception of Decimal(str(x)) into False
           IF SegmentIsMalformed(segment)
           THEN /\ result' = "False"
                /\ pc' = "aborted"
                /\ UNCHANGED << i, timeline_duration_sec, elements >>
           ELSE /\ IF DecLeq(seg_duration_sec, DecZero)
                   THEN UNCHANGED << timeline_duration_sec, elements >>
                   ELSE /\ timeline_duration_sec' =
                               DecMax(timeline_duration_sec, seg_end_sec)
                        /\ elements' =
                               Append(elements,
                                      [name |-> i,
                                       start_time |-> seg_start_sec,
                                       duration |-> seg_duration_sec,
                                       is_audio |-> FALSE,
                                       markers |-> <<>>])
                /\ i' = i + 1
                /\ pc' = after_events(i + 1)
                /\ UNCHANGED result
    /\ UNCHANGED << callVars, frame_rate, timebase, json_data, media_info,
                    path_exists, beats, downbeats_list, adjusted_segments,
                    processed_shots, max_event_time_sec,
                    total_timeline_duration_fcpxml, main_clip,
                    placeholder_clips, shot_clips, timeVars, media_type,
                    media_path, video_track, audio_track >>

\* create_audio_timeline lines 631-693: beats and downbeats are converted
\* and sorted, not snapped; audio_info['duration'] raises when the probe
\* gave nothing and json_to_timeline (lines 126-128) returns False
UnifiedAudioExtract ==
    /\ pc = "start"
    /\ media_type = "audio"
    /\ IF \/ HasMalformed(json_data.beats)
          \/ HasMalformed(json_data.downbeats)
          \/ media_info = NoInfo
       THEN /\ result' = "False"
            /\ pc' = "aborted"
            /\ UNCHANGED << beats, downbeats_list, i >>
       ELSE /\ beats' = sorted(json_data.beats)
            /\ downbeats_list' = sorted(json_data.downbeats)
            /\ i' = 1
            /\ pc' = "segments"
            /\ UNCHANGED result
    /\ UNCHANGED << callVars, frame_rate, timebase, json_data, media_info, path_exists,
                    adjusted_segments, processed_shots, max_event_time_sec,
                    timeline_duration_sec, total_timeline_duration_fcpxml,
                    main_clip, placeholder_clips, shot_clips, timeVars,
                    otioVars >>

\* create_audio_timeline lines 698-723: one turn of the loop over segments
UnifiedAudioSegment ==
    /\ pc = "segments"
    /\ media_type = "audio"
    /\ i <= Len(json_data.segments)
    /\ LET seg == json_data.segments[i]
       IN  IF SegmentIsMalformed(seg)
           THEN UNCHANGED << adjusted_segments, max_event_time_sec >>
           ELSE LET snapped_start_sec == snap_to_frame_grid(seg.start, frame_rate)
                    snapped_end_sec == snap_to_frame_grid(seg.end, frame_rate)
                    adjusted_start_sec ==
                        adjusted_start(snapped_start_sec, downbeats_list)
                IN  /\ adjusted_segments' =
                           Append(adjusted_segments,
                                  [adjusted_start |-> adjusted_start_sec,
                                   label |-> i])
                    /\ max_event_time_sec' =
                           DecMax(max_event_time_sec, snapped_end_sec)
    /\ i' = i + 1
    /\ UNCHANGED << callVars, pc, result, frame_rate, timebase, json_data, media_info,
                    path_exists, beats, downbeats_list, processed_shots,
                    timeline_duration_sec, total_timeline_duration_fcpxml,
                    main_clip, placeholder_clips, shot_clips, timeVars,
                    otioVars >>

\* create_audio_timeline lines 725-783: the total duration, the clip of the
\* audio with its markers, and the placeholders
UnifiedAudioElements ==
    /\ pc = "segments"
    /\ media_type = "audio"
    /\ i > Len(json_data.segments)
    /\ LET with_beats == IF beats # <<>>
                         THEN DecMax(max_event_time_sec, MaxOf(beats))
                         ELSE max_event_time_sec
           total == snap_to_frame_grid(DecMax(media_info.duration, with_beats),
                                       frame_rate)
       IN  /\ max_event_time_sec' = with_beats
           /\ timeline_duration_sec' = total
           /\ elements' =
                  << audio_clip_element(total, beats, downbeats_list) >>
                  \o placeholder_elements(adjusted_segments, 1, total)
    /\ pc' = "timeline"
    /\ UNCHANGED << callVars, result, frame_rate, timebase, json_data, media_info,
                    path_exists, i, beats, downbeats_list, adjusted_segments,
                    processed_shots, total_timeline_duration_fcpxml, main_clip,
                    placeholder_clips, shot_clips, timeVars, media_type,
                    media_path, video_track, audio_track >>

\* the first n members of a sequence, as a set
FirstOf(files, n) == { files[k] : k \in 1..(IF n < Len(files) THEN n ELSE Len(files)) }

\* timeline_to_pygenometracks, lines 440-607, without custom_ini_path: what
\* it returns and the files it leaves when the n-th write is the first to
\* fail.  timeline is an OTIO timeline (is_timeline) or another object; a
\* dictionary has no attribute 'tracks', the AttributeError of line 450 is
\* caught at lines 605-607.
pygenometracks_outcome(available, is_timeline, clips, n) ==
    IF ~available THEN [returns |-> "False", files |-> {}]
    ELSE IF ~is_timeline THEN [returns |-> "False", files |-> {}]
    ELSE LET has_markers == \E k \in 1..Len(clips) : clips[k].markers # <<>>
             bed == [kind |-> "bed",
                     content |-> [k \in 1..Len(clips) |-> "timeline"]]
             markers_bed == [kind |-> "markers_bed", content |-> <<"timeline">>]
             ini == [kind |-> "ini",
                     content |-> <<"[spacer]", "[x-axis]", "[bed] file = bed">>
                                 \o (IF has_markers
                                     THEN <<"[bed_markers] file = markers_bed">>
                                     ELSE <<>>)]
             png == [kind |-> "png", content |-> <<"figure">>]
             files == <<bed>> \o (IF has_markers THEN <<markers_bed>> ELSE <<>>)
                      \o <<ini, png>>
         IN  [returns |-> IF n >= Len(files) THEN "True" ELSE "False",
              files |-> FirstOf(files, n)]

\* most files one call writes
MaxFiles == 4

\* json_to_timeline lines 111-129: the timeline is written in the format
\* asked for.  The value write_timeline_to_fcpxml returns (False when the
\* adapter raised, otio_utils.py lines 102-107) and the value
\* timeline_to_pygenometracks returns are not looked at; an exception of
\* otio.adapters.write_to_file is caught at lines 127-129.
UnifiedWrite ==
    /\ pc = "write"
    /\ \E format \in TimelineFormat, available \in BOOLEAN, n \in 0..MaxFiles :
           /\ format # "pygenometracks" => (~available /\ n <= 1)
           /\ request' = [request EXCEPT !.format = format,
                                         !.available = available]
           /\ IF format = "fcpxml"
              THEN /\ files_written' =
                          IF n = 1
                          THEN { [kind |-> "fcpxml",
                                  content |-> <<"adapter.write_to_file">>] }
                          ELSE {}
                   /\ result' = "True"
              ELSE IF format = "otio"
              THEN /\ files_written' =
                          IF n = 1
                          THEN { [kind |-> "otio",
                                  content |-> <<"otio.adapters.write_to_file">>] }
                          ELSE {}
                   /\ result' = IF n = 1 THEN "True" ELSE "False"
              ELSE /\ files_written' =
                          pygenometracks_outcome(available, TRUE,
                              video_track \o audio_track, n).files
                   /\ result' = IF available THEN "True" ELSE "False"
    /\ pc' = "done"
    /\ UNCHANGED << frame_rate, timebase, assemblerVars, timeVars, otioVars >>

\* timeline_to_pygenometracks called with the parsed JSON data in the place
\* of a timeline (tests/cli/common/test_pygenometracks.py lines 84-96)
PygenometracksOnData ==
    /\ pc = "load"
    /\ \E available \in BOOLEAN, n \in 0..MaxFiles :
           LET outcome == pygenometracks_outcome(available, FALSE, <<>>, n)
           IN  /\ request' = [request EXCEPT
                                  !.call = "timeline_to_pygenometracks",
                                  !.input = "ok",
                                  !.media_type =
                                      IF "shots" \in request.keys THEN "video"
                                      ELSE "audio",
                                  !.format = "pygenometracks",
                                  !.available = available]
               /\ files_written' = outcome.files
               /\ result' = outcome.returns
    /\ pc' = "done"
    /\ UNCHANGED << frame_rate, timebase, assemblerVars, timeVars, otioVars >>

NextUnified ==
    \/ JsonLoadAndDetect
    \/ PygenometracksOnData
    \/ UnifiedVideoMain
    \/ UnifiedVideoShot
    \/ UnifiedVideoSegment
    \/ UnifiedAudioExtract
    \/ UnifiedAudioSegment
    \/ UnifiedAudioElements
    \/ create_timeline_from_elements
    \/ UnifiedWrite

SpecUnified == InitUnified /\ [][NextUnified]_vars


(***************************************************************************)
(* Properties                                                              *)
(***************************************************************************)
AfterDuration == pc \in {"main", "placeholders", "clips", "elements",
                         "timeline", "write", "done"}

\* C1: in the sequence of placeholders the audio assembler emits, each
\* element's end (offset + duration) is the offset of the next one, whatever
\* the order of the segments in the input.
AudioGapless ==
    \A k \in 1..(Len(placeholder_clips) - 1) :
        placeholder_clips[k].offset + placeholder_clips[k].duration
            = placeholder_clips[k + 1].offset

\* C2: the video assembler takes the shots in nondecreasing snapped-start
\* order, and each emitted shot clip's offset + duration is the offset of
\* the next emitted shot clip.
VideoGaplessInStartOrder ==
    /\ AfterDuration =>
           \A k \in 1..(Len(processed_shots) - 1) :
               DecLeq(processed_shots[k].start_sec,
                      processed_shots[k + 1].start_sec)
    /\ \A k \in 1..(Len(shot_clips) - 1) :
           shot_clips[k].offset + shot_clips[k].duration
               = shot_clips[k + 1].offset

\* C3: every emitted secondary element, placeholder or shot clip, has a
\* duration > 0; of two events with the same snapped start the one
\* assembled first is the earlier-indexed one and it produces no element.
EmittedDurationsPositive ==
    /\ \A k \in 1..Len(placeholder_clips) : placeholder_clips[k].duration > 0
    /\ \A k \in 1..Len(shot_clips) : shot_clips[k].duration > 0
    /\ AfterDuration =>
           \A k \in 1..(Len(processed_shots) - 1) :
               processed_shots[k].start_sec = processed_shots[k + 1].start_sec
                   => /\ processed_shots[k].index < processed_shots[k + 1].index
                      /\ \A c \in 1..Len(shot_clips) :
                             shot_clips[c].index # processed_shots[k].index

\* C4: the offsets of the placeholders the audio assembler emits increase
\* strictly in emission order, whatever the order of the segments.
AudioStartsIncrease ==
    \A k \in 1..(Len(placeholder_clips) - 1) :
        placeholder_clips[k].offset < placeholder_clips[k + 1].offset

\* C5: total_duration is a whole number of frames, is at least the native
\* media duration and is at least every snapped event end.
TotalDurationBound ==
    AfterDuration =>
        /\ IsWhole(DecMulInt(timeline_duration_sec, frame_rate))
        /\ DecLeq(media_info.duration, timeline_duration_sec)
        /\ \A k \in 1..Len(json_data.segments) :
               ~SegmentIsMalformed(json_data.segments[k]) =>
                   DecLeq(snap_to_frame_grid(json_data.segments[k].end,
                                             frame_rate),
                          timeline_duration_sec)
        /\ \A k \in 1..Len(processed_shots) :
               DecLeq(processed_shots[k].end_sec, timeline_duration_sec)

\* C6: a segment's adjusted start is its snapped start when that is a
\* downbeat; otherwise the least downbeat at or after the snapped start
\* when there is one; otherwise the snapped start.  It is never earlier
\* than the snapped start.
DownbeatSnapping ==
    \A k \in 1..Len(adjusted_segments) :
        LET seg   == json_data.segments[adjusted_segments[k].label]
            s     == snap_to_frame_grid(seg.start, frame_rate)
            a     == adjusted_segments[k].adjusted_start
            on    == \E j \in 1..Len(downbeats_list) : downbeats_list[j] = s
            later == { j \in 1..Len(downbeats_list) :
                          DecLeq(s, downbeats_list[j]) }
        IN  /\ on => a = s
            /\ (~on /\ later # {}) =>
                   \E j \in later :
                       /\ a = downbeats_list[j]
                       /\ \A m \in later :
                              DecLeq(downbeats_list[j], downbeats_list[m])
            /\ (~on /\ later = {}) => a = s
            /\ DecLeq(s, a)

\* C6 happens: a segment was moved to a later downbeat, and another one
\* past the last downbeat kept its snapped start
DownbeatSnappingSeen ==
    /\ \E k \in 1..Len(adjusted_segments) :
           DecLess(snap_to_frame_grid(
                       json_data.segments[adjusted_segments[k].label].start,
                       frame_rate),
                   adjusted_segments[k].adjusted_start)
    /\ \E k \in 1..Len(adjusted_segments) :
           /\ downbeats_list # <<>>
           /\ DecLess(downbeats_list[Len(downbeats_list)],
                      adjusted_segments[k].adjusted_start)

Snapped == pc \in {"resnap", "convert"}
           \/ (pc \in {"convert_raw", "done"} /\ time_sec # Malformed)

\* C7: snap_to_frame_grid(seconds, frame_rate) is
\* round_half_up(seconds * frame_rate) / frame_rate: a product halfway
\* between two frames goes to the higher one.
SnapRoundsHalfUp ==
    Snapped =>
        snapped_sec = DecDivInt(DecHalfUp(DecMulInt(time_sec, frame_rate)),
                                frame_rate)

\* C8: snapping a snapped time changes nothing, and a snapped time
\* multiplied by the frame rate is an integer.
SnapIdempotentAndFrameExact ==
    (Snapped /\ pc # "resnap") =>
        /\ resnapped_sec = snapped_sec
        /\ IsWhole(DecMulInt(snapped_sec, frame_rate))

\* C9: for a frame count n >= 0, seconds_to_timeline_time of the snapped
\* time n / frame_rate has the numerator n * (timebase / frame_rate), with
\* round_up and without.
FrameRoundTripExact ==
    (Snapped /\ pc \in {"convert_raw", "done"} /\ frames >= 0) =>
        snapped_units = frames * (timebase \div frame_rate)

\* C10: the numerator seconds_to_timeline_time returns is never negative.
NumeratorNeverNegative ==
    pc = "done" => raw_units >= 0

(***************************************************************************)
(* Timeline assembly: main element, secondary elements, error handling     *)
(***************************************************************************)
\* timebase units of one frame
UnitsPerFrame == timebase \div frame_rate

\* the frame a raw time is snapped to
FramesOf(t) == DecRound(DecMulInt(t, frame_rate))

\* total_duration in frames
TotalFrames == DecHalfUp(DecMulInt(timeline_duration_sec, frame_rate))

Emitted == pc \in {"write", "done"}

\* C11: every beat marker time, downbeat marker time and placeholder start
\* that reaches the emitter is a whole number of frames, in the native audio
\* assembler, in the OTIO one and in create_audio_timeline.
TimestampsSnappedBeforeUse ==
    /\ \A k \in 1..Len(audio_track) :
           \A m \in 1..Len(audio_track[k].markers) :
               IsWhole(audio_track[k].markers[m])
    /\ \A k \in 1..Len(video_track) : IsWhole(video_track[k].start_time)
    /\ \A k \in 1..Len(main_clip.markers) :
           main_clip.markers[k].start % UnitsPerFrame = 0
    /\ \A k \in 1..Len(placeholder_clips) :
           placeholder_clips[k].offset % UnitsPerFrame = 0

\* C12: the main element has offset 0 and the duration total_duration; it
\* carries one marker per beat and one per downbeat (audio), one per shot
\* (video), each at the frame its event is snapped to.
OneMainElementWithMarkers ==
    /\ pc \in {"placeholders", "clips", "elements", "timeline", "write", "done"}
       => /\ main_clip.offset = 0
          /\ main_clip.duration = TotalFrames * UnitsPerFrame
    /\ (Emitted /\ json_data.shots = <<>>)
       => LET nb == Len(json_data.beats)
              nd == Len(json_data.downbeats)
          IN  /\ Len(main_clip.markers) = nb + nd
              /\ \A k \in 1..nb :
                     main_clip.markers[k].start =
                         FramesOf(json_data.beats[k]) * UnitsPerFrame
              /\ \A k \in 1..nd :
                     LET f == FramesOf(json_data.downbeats[k])
                     IN  Cardinality({ m \in (nb + 1)..(nb + nd) :
                                 main_clip.markers[m].start = f * UnitsPerFrame })
                         = Cardinality({ j \in 1..nd :
                                 FramesOf(json_data.downbeats[j]) = f })
    /\ (Emitted /\ json_data.shots # <<>>)
       => /\ Len(main_clip.markers) = Len(json_data.shots)
          /\ \A k \in 1..Len(json_data.shots) :
                 \E m \in 1..Len(main_clip.markers) :
                     /\ main_clip.markers[m].value = <<"Shot", k>>
                     /\ main_clip.markers[m].start =
                            FramesOf(json_data.shots[k].time_offset)
                                * UnitsPerFrame

\* element k is the last one of clips in start order
LastInStartOrder(clips, k) ==
    \A j \in 1..Len(clips) :
        \/ clips[j].offset < clips[k].offset
        \/ (clips[j].offset = clips[k].offset /\ j <= k)

\* C13: in both assemblers the last secondary element in start order ends
\* at total_duration.
LastElementEndsAtTotal ==
    Emitted =>
        /\ \A k \in 1..Len(shot_clips) :
               LastInStartOrder(shot_clips, k) =>
                   shot_clips[k].offset + shot_clips[k].duration
                       = TotalFrames * UnitsPerFrame
        /\ \A k \in 1..Len(placeholder_clips) :
               LastInStartOrder(placeholder_clips, k) =>
                   placeholder_clips[k].offset + placeholder_clips[k].duration
                       = TotalFrames * UnitsPerFrame

\* no media info problem and no timestamp that is not a number
InputIsUsable ==
    /\ media_info # NoInfo
    /\ path_exists
    /\ ~HasMalformed(json_data.beats)
    /\ ~HasMalformed(json_data.downbeats)
    /\ \A k \in 1..Len(json_data.shots) : ~ShotIsMalformed(json_data.shots[k])

ShotIsDegenerate(shot) ==
    /\ ~ShotIsMalformed(shot)
    /\ DecLeq(snap_to_frame_grid(DecAdd(shot.time_offset, shot.time_duration),
                                 frame_rate),
              snap_to_frame_grid(shot.time_offset, frame_rate))

SegmentIsDegenerate(seg) ==
    /\ ~SegmentIsMalformed(seg)
    /\ DecLeq(snap_to_frame_grid(seg.end, frame_rate),
              snap_to_frame_grid(seg.start, frame_rate))

\* C14: a segment or shot whose snapped end is <= its snapped start gets no
\* secondary element, wherever it is in the list, and the conversion goes
\* on with the other events.
DegenerateEventsSkipped ==
    /\ \A k \in 1..Len(json_data.shots) :
           ShotIsDegenerate(json_data.shots[k]) =>
               /\ \A c \in 1..Len(shot_clips) : shot_clips[c].index # k
               /\ InputIsUsable => pc # "aborted"
    /\ \A k \in 1..Len(json_data.segments) :
           SegmentIsDegenerate(json_data.segments[k]) =>
               /\ \A c \in 1..Len(placeholder_clips) :
                      placeholder_clips[c].label # k
               /\ InputIsUsable => pc # "aborted"

\* C15: with empty beats, downbeats and segments (audio) or an empty shots
\* list (video) the conversion goes through and emits the main clip alone,
\* without markers and without secondary elements.
EmptyEventListsSucceed ==
    ( /\ json_data.beats = <<>>
      /\ json_data.downbeats = <<>>
      /\ json_data.segments = <<>>
      /\ json_data.shots = <<>>
      /\ InputIsUsable )
    => /\ pc # "aborted"
       /\ Emitted => /\ main_clip.markers = <<>>
                     /\ placeholder_clips = <<>>
                     /\ shot_clips = <<>>

\* the snapped ends of the shots and segments create_video_timeline emits
UnifiedEmittedEnds ==
    { snap_to_frame_grid(DecAdd(json_data.shots[k].time_offset,
                                json_data.shots[k].time_duration), frame_rate) :
        k \in { n \in 1..Len(json_data.shots) :
                    /\ ~ShotIsMalformed(json_data.shots[n])
                    /\ ~ShotIsDegenerate(json_data.shots[n]) } }
    \cup
    { snap_to_frame_grid(json_data.segments[k].end, frame_rate) :
        k \in { n \in 1..Len(json_data.segments) :
                    /\ ~SegmentIsMalformed(json_data.segments[n])
                    /\ ~SegmentIsDegenerate(json_data.segments[n]) } }

\* C16: in create_video_timeline the main media clip starts at 0 and lasts
\* snap(max(native duration, greatest snapped end of the emitted shots and
\* segments)), so that it covers every clip emitted after it.
UnifiedMainClipCoversShots ==
    (media_type = "video" /\ media_path # "" /\ Emitted) =>
        LET native == IF media_info # NoInfo THEN media_info.duration
                      ELSE DecZero
            all    == UnifiedEmittedEnds \cup {native}
            latest == CHOOSE x \in all : \A y \in all : DecLeq(y, x)
            total  == snap_to_frame_grid(latest, frame_rate)
        IN  /\ video_track[1].start_time = DecZero
            /\ video_track[1].duration = RationalTime(total, frame_rate)
            /\ \A k \in 2..Len(video_track) :
                   DecLeq(DecAdd(video_track[k].start_time,
                                 video_track[k].duration),
                          video_track[1].duration)

\* C17: each secondary element has the same position and the same duration
\* in frames in the native FCPXML output (offset, duration) and in the OTIO
\* timeline (sum of the durations of the items before it, duration).
CrossFormatPlacement ==
    (Emitted /\ media_type = "none") =>
        /\ Len(video_track) = Len(placeholder_clips)
        /\ \A k \in 1..Len(placeholder_clips) :
               k <= Len(video_track) =>
                   /\ DecFromInt(placeholder_clips[k].offset \div UnitsPerFrame)
                          = range_in_parent_start(video_track, k)
                   /\ DecFromInt(placeholder_clips[k].duration \div UnitsPerFrame)
                          = video_track[k].duration

SegmentIsWellFormed(seg) == ~SegmentIsMalformed(seg)

\* the run of lines 140-178 of the audio assembler on a list of segments
\* that are all well-formed: the adjusted starts, and the total duration
adjusted_segments_of(segs, dl) ==
    [k \in 1..Len(segs) |->
        [adjusted_start |-> adjusted_start(
                                snap_to_frame_grid(segs[k].start, frame_rate), dl),
         label |-> k]]

max_event_time_of(segs, bs) ==
    LET ends == { snap_to_frame_grid(segs[k].end, frame_rate) :
                      k \in 1..Len(segs) }
        all  == ends \cup { bs[k] : k \in 1..Len(bs) } \cup {DecZero}
    IN  CHOOSE x \in all : \A y \in all : DecLeq(y, x)

timeline_duration_of(segs, bs, native) ==
    snap_to_frame_grid(DecMax(native, max_event_time_of(segs, bs)), frame_rate)

\* C18: a segment whose start or end is missing or not a number is skipped
\* alone: the conversion is not ended by it, and the placeholder offsets
\* and durations are those of the same input without that segment.
MalformedSegmentSkippedLocally ==
    /\ InputIsUsable => pc # "aborted"
    /\ (Emitted /\ json_data.shots = <<>>) =>
           LET good     == SelectSeq(json_data.segments, SegmentIsWellFormed)
               total    == timeline_duration_of(good, beats, media_info.duration)
               expected == placeholder_elements(
                               adjusted_segments_of(good, downbeats_list),
                               1, total)
           IN  /\ Len(placeholder_clips) = Len(expected)
               /\ \A k \in 1..Len(expected) :
                      k <= Len(placeholder_clips) =>
                          /\ placeholder_clips[k].offset =
                                 seconds_to_timeline_time(
                                     expected[k].start_time, timebase,
                                     frame_rate, FALSE)
                          /\ placeholder_clips[k].duration =
                                 seconds_to_timeline_time(
                                     expected[k].duration, timebase,
                                     frame_rate, TRUE)

\* C18 happens: a conversion with a malformed segment between good ones
\* returned True with two placeholders
MalformedSegmentSkippedSeen ==
    /\ pc = "done"
    /\ result = "True"
    /\ Len(json_data.segments) = 3
    /\ SegmentIsMalformed(json_data.segments[2])
    /\ Len(placeholder_clips) = 2

\* C19: a beat, a downbeat or a shot entry that is not a number does not
\* end the conversion.
OneBadTimestampNeverAborts ==
    ( /\ media_info # NoInfo
      /\ path_exists
      /\ \/ HasMalformed(json_data.beats)
         \/ HasMalformed(json_data.downbeats)
         \/ \E k \in 1..Len(json_data.shots) :
                ShotIsMalformed(json_data.shots[k]) )
    => pc # "aborted"

\* C20: without the media file, or without a probe result, the conversion
\* goes on with a duration derived from the greatest event time.
MissingMediaInfoDegrades ==
    ( /\ media_info = NoInfo \/ ~path_exists
      /\ ~HasMalformed(json_data.beats)
      /\ ~HasMalformed(json_data.downbeats)
      /\ \A k \in 1..Len(json_data.shots) :
             ~ShotIsMalformed(json_data.shots[k]) )
    => /\ pc # "aborted"
       /\ AfterDuration => DecLeq(max_event_time_sec, timeline_duration_sec)


(***************************************************************************)
(* Markers and placeholders of the audio assembler                         *)
(***************************************************************************)
MarkersAttached == pc \in {"elements", "timeline", "write", "done"}

\* the positions in the sorted downbeat list of the downbeats d with
\* lo <= d < hi
IndicesWithin(dl, lo, hi) ==
    { j \in 1..Len(dl) : DecLeq(lo, dl[j]) /\ DecLess(dl[j], hi) }

\* C26: each emitted audio placeholder carries one marker for every
\* downbeat d with start <= d < end and no other marker; the marker of d is
\* at d - start, which is >= 0 and less than the placeholder's duration,
\* and the markers are numbered 1..k in ascending time order.
PlaceholderDownbeatMarkers ==
    MarkersAttached =>
        \A c \in 1..Len(placeholder_clips) :
            LET ph == placeholder_clips[c]
                S  == IndicesWithin(downbeats_list, ph.start_sec, ph.end_sec)
            IN  /\ Len(ph.markers) = Cardinality(S)
                /\ \A n \in 1..Len(ph.markers) :
                       \E j \in S :
                           /\ Cardinality({ m \in S : m <= j }) = n
                           /\ ph.markers[n].value = <<ph.label, "DB", n>>
                           /\ ph.markers[n].start =
                                  (DecHalfUp(DecMulInt(downbeats_list[j],
                                                       frame_rate))
                                   - DecHalfUp(DecMulInt(ph.start_sec,
                                                         frame_rate)))
                                  * UnitsPerFrame
                           /\ ph.markers[n].start >= 0
                           /\ ph.markers[n].start < ph.duration
                /\ \A n \in 1..(Len(ph.markers) - 1) :
                       ph.markers[n].start <= ph.markers[n + 1].start

\* C26 happens: a placeholder carries two markers, the second one later
\* than the first, while a downbeat outside its range is left to another
PlaceholderDownbeatMarkersSeen ==
    /\ MarkersAttached
    /\ \E c \in 1..Len(placeholder_clips) :
           /\ Len(placeholder_clips[c].markers) = 2
           /\ placeholder_clips[c].markers[1].start
                  < placeholder_clips[c].markers[2].start
    /\ \E c \in 1..Len(placeholder_clips) :
           Len(placeholder_clips[c].markers) < Len(downbeats_list)

\* C27: the downbeat adjustment keeps the order of the segments: of two
\* segments of one input, the one with the smaller or equal snapped start
\* has the smaller or equal adjusted start.
\* adjusted_segments is built by the loop over the segments and is not
\* changed after it, so the pairs are compared while the loop runs and when
\* it has ended.
AdjustmentPreservesOrder ==
    pc = "segments" =>
        \A k \in 1..Len(adjusted_segments) :
            \A j \in (k + 1)..Len(adjusted_segments) :
                LET sk == snap_to_frame_grid(
                              json_data.segments[
                                  adjusted_segments[k].label].start,
                              frame_rate)
                    sj == snap_to_frame_grid(
                              json_data.segments[
                                  adjusted_segments[j].label].start,
                              frame_rate)
                    ak == adjusted_segments[k].adjusted_start
                    aj == adjusted_segments[j].adjusted_start
                IN  /\ DecLeq(sk, sj) => DecLeq(ak, aj)
                    /\ DecLeq(sj, sk) => DecLeq(aj, ak)

\* C27 happens: of two segments with different snapped starts the earlier
\* one was moved to a later downbeat, and both were adjusted
AdjustmentPreservesOrderSeen ==
    \E k \in 1..Len(adjusted_segments) :
        \E j \in 1..Len(adjusted_segments) :
            LET sk == snap_to_frame_grid(
                          json_data.segments[adjusted_segments[k].label].start,
                          frame_rate)
                sj == snap_to_frame_grid(
                          json_data.segments[adjusted_segments[j].label].start,
                          frame_rate)
            IN  /\ DecLess(sk, sj)
                /\ DecLess(sk, adjusted_segments[k].adjusted_start)
                /\ downbeats_list # <<>>

\* C28: every emitted audio placeholder starts at or after 0 and ends at or
\* before total_duration.
PlaceholdersInsideTimeline ==
    \A c \in 1..Len(placeholder_clips) :
        /\ placeholder_clips[c].offset >= 0
        /\ placeholder_clips[c].offset + placeholder_clips[c].duration
               <= total_timeline_duration_fcpxml

\* C29: every beat marker and downbeat marker of the main audio clip has a
\* start t with 0 <= t <= total_duration.
MainMarkersInsideTimeline ==
    \A m \in 1..Len(main_clip.markers) :
        /\ main_clip.markers[m].start >= 0
        /\ main_clip.markers[m].start <= total_timeline_duration_fcpxml

\* C30: a segment whose snapped start is before its snapped end has an
\* adjusted start at or before its own snapped end, whatever the downbeats.
AdjustedStartBeforeOwnEnd ==
    \A k \in 1..Len(adjusted_segments) :
        LET seg == json_data.segments[adjusted_segments[k].label]
            s   == snap_to_frame_grid(seg.start, frame_rate)
            e   == snap_to_frame_grid(seg.end, frame_rate)
        IN  DecLess(s, e) => DecLeq(adjusted_segments[k].adjusted_start, e)

\* C23: every marker lasts exactly one frame: the marked range of an OTIO
\* marker has a duration of 1 frame, and the duration of an FCPXML marker
\* is that of one frame (frameDuration) at every frame rate.
MarkersLastOneFrame ==
    /\ \A k \in 1..Len(audio_track) :
           audio_track[k].marker_duration = DecFromInt(1)
    /\ \A k \in 1..Len(video_track) :
           video_track[k].marker_duration = DecFromInt(1)
    /\ \A m \in 1..Len(main_clip.markers) :
           main_clip.markers[m].duration = UnitsPerFrame
    /\ \A c \in 1..Len(placeholder_clips) :
           \A m \in 1..Len(placeholder_clips[c].markers) :
               placeholder_clips[c].markers[m].duration = UnitsPerFrame

(***************************************************************************)
(* Results and output files of the conversions                             *)
(***************************************************************************)
Returned == pc \in {"done", "aborted"}

\* the kind of the file at output_path for a format (json_to_timeline lines
\* 66-72)
OutputKind(format) ==
    IF format = "pygenometracks" THEN "ini" ELSE format

\* the output file of the call is among the files written
OutputWritten ==
    \E f \in files_written :
        /\ f.content # <<>>
        /\ f.kind = IF request.call = "none" THEN "fcpxml"
                    ELSE OutputKind(request.format)

\* C21: json_to_timeline and json_to_fcpxml return True only if the output
\* file was written; with a missing input file, with malformed JSON and
\* with a failed write of the output, in any format, they return False.
ResultReflectsOutcome ==
    (Returned /\ request.call # "timeline_to_pygenometracks") =>
        /\ result = "True" => OutputWritten
        /\ request.input \in {"missing", "malformed"} => result = "False"
        /\ (pc = "done" /\ ~OutputWritten) => result = "False"

\* C22: a well-formed audio or video input whose media exists and whose
\* probe succeeds is converted: unless the write itself fails the
\* conversion returns True and leaves a non-empty output file, and an
\* FCPXML file of the native emitters begins with the XML declaration, the
\* DOCTYPE fcpxml line and the fcpxml root.
WellFormedInputConverts ==
    (InputIsUsable /\ Returned) =>
        /\ pc = "done"
        /\ files_written # {} =>
               /\ result = "True"
               /\ \E f \in files_written :
                      /\ f.kind = "fcpxml"
                      /\ Len(f.content) >= 3
                      /\ f.content[1] = "<?xml version=\"1.0\" encoding=\"UTF-8\"?>"
                      /\ f.content[2] = "<!DOCTYPE fcpxml>"
                      /\ f.content[3] = "<fcpxml version=\"1.13\">"

\* C24: json_to_timeline called without a media type runs
\* create_audio_timeline on an input with the keys of the audio schema
\* (path, beats, downbeats, segments, no shots) and create_video_timeline
\* on an input with a shots key.
AutoDetectFollowsSchema ==
    ( /\ request.call = "json_to_timeline"
      /\ request.input = "ok"
      /\ request.media_type = "none" )
    => /\ "shots" \in request.keys => media_type = "video"
       /\ ( /\ "shots" \notin request.keys
            /\ {"beats", "downbeats", "segments"} \subseteq request.keys )
          => media_type = "audio"

\* C25: timeline_to_pygenometracks called with the parsed shots JSON (a
\* dictionary with shots and path) and media_type "video" returns True and
\* writes the INI, the BED file and the PNG, the bed section of the INI
\* naming that BED file.
PygenometracksAcceptsShotsData ==
    ( /\ request.call = "timeline_to_pygenometracks"
      /\ request.available
      /\ "shots" \in request.keys
      /\ request.media_type = "video"
      /\ pc = "done" )
    => /\ result = "True"
       /\ \A kind \in {"ini", "bed", "png"} :
              \E f \in files_written : f.kind = kind
       /\ \E f \in files_written :
              /\ f.kind = "ini"
              /\ \E k \in 1..Len(f.content) : f.content[k] = "[bed] file = bed"

====
